---- MODULE Spec2Model ----
(***************************************************************************)
(* A model of the ts-play-core runner (run.ts): the promise executor of    *)
(* run(), boot(), the frame loop with its time gate, the buffer            *)
(* normalisation, the user hooks and the renderer call.                    *)
(*                                                                         *)
(* Time is in milliseconds.  The numbers the loop computes with are        *)
(* JavaScript numbers (IEEE-754 binary64); the timing values are modelled  *)
(* as binary64 values in a fixed-point form with 52 fraction bits, every   *)
(* operation rounded to 53 significant bits, ties to even, as the          *)
(* hardware rounds them.                                                   *)
(***************************************************************************)
EXTENDS Integers, Sequences, FiniteSets, TLC

(***************************************************************************)
(* binary64 arithmetic on values 0 <= v < 2^11 that are multiples of       *)
(* 2^-52: v = i + h / 2^26 + l / 2^52, the limbs h and l in 0 .. 2^26 - 1. *)
(* Timestamps are whole milliseconds, 1000 / fps is at least 1, and sums   *)
(* and differences of multiples of 2^-52 are multiples of 2^-52, so every  *)
(* value of the loop's timing has this form.                               *)
(***************************************************************************)
Pow2(n) == CASE n = 0 -> 1 [] n = 1 -> 2 [] n = 2 -> 4 [] n = 3 -> 8
             [] n = 4 -> 16 [] n = 5 -> 32 [] n = 6 -> 64 [] n = 7 -> 128
             [] n = 8 -> 256 [] n = 9 -> 512 [] n = 10 -> 1024
             [] n = 11 -> 2048 [] n = 12 -> 4096 [] n = 13 -> 8192
             [] n = 14 -> 16384 [] n = 15 -> 32768 [] n = 16 -> 65536
             [] n = 17 -> 131072 [] n = 18 -> 262144 [] n = 19 -> 524288
             [] n = 20 -> 1048576 [] n = 21 -> 2097152 [] n = 22 -> 4194304
             [] OTHER -> 8388608

\* Thirteen bits of a quotient are produced at a time; a limb holds 26.
Chunk == Pow2(13)

Limb == Chunk * Chunk

\* floor(log2 n) for 1 <= n < 2^11: the binary exponent of a value with
\* integer part n.
ILog2(n) == CHOOSE e \in 0..10 : Pow2(e) <= n /\ n < 2 * Pow2(e)

F64FromInt(n) == [i |-> n, h |-> 0, l |-> 0]

F64Less(a, b) ==
    \/ a.i < b.i
    \/ a.i = b.i /\ a.h < b.h
    \/ a.i = b.i /\ a.h = b.h /\ a.l < b.l

\* a - b as a real number, for a >= b (no rounding yet).
F64SubExact(a, b) ==
    LET bl == IF a.l < b.l THEN 1 ELSE 0
        l  == a.l - b.l + bl * Limb
        bh == IF a.h - bl < b.h THEN 1 ELSE 0
        h  == a.h - bl - b.h + bh * Limb
    IN  [i |-> a.i - b.i - bh, h |-> h, l |-> l]

\* Round to nearest, ties to even, to 53 significant bits.  The value is
\* v plus a tail below 2^-52: g / 2^65 and, when sticky, something more.
F64RoundTail(v, g, sticky) ==
    IF v.i = 0 THEN v
    ELSE
      LET e    == ILog2(v.i)
          low  == v.l % Pow2(e)
          tail == low * Chunk + g
          half == Pow2(e + 12)
          odd  == ((v.l \div Pow2(e)) % 2) = 1
          up   == \/ tail > half
                  \/ tail = half /\ (sticky \/ odd)
          l1   == (v.l - low) + (IF up THEN Pow2(e) ELSE 0)
          cl   == IF l1 >= Limb THEN 1 ELSE 0
          h1   == v.h + cl
          ch   == IF h1 >= Limb THEN 1 ELSE 0
      IN  [i |-> v.i + ch, h |-> h1 - ch * Limb, l |-> l1 - cl * Limb]

F64Round(v) == F64RoundTail(v, 0, FALSE)

\* The JavaScript a - b for a >= b.
F64Sub(a, b) == F64Round(F64SubExact(a, b))

\* The JavaScript a % b for a >= 0, b > 0: the remainder is exact.
RECURSIVE F64Fmod(_, _)
F64Fmod(a, b) == IF F64Less(a, b) THEN a ELSE F64Fmod(F64SubExact(a, b), b)

\* The JavaScript 1000 / fps for an integer 1 <= fps <= 1000, by long
\* division in chunks of 13 bits: 52 fraction bits, a guard chunk, and
\* the remainder as the sticky bit.
F64Div1000(fps) ==
    LET q0 == 1000 \div fps
        r0 == 1000 % fps
        c1 == (r0 * Chunk) \div fps
        r1 == (r0 * Chunk) % fps
        c2 == (r1 * Chunk) \div fps
        r2 == (r1 * Chunk) % fps
        c3 == (r2 * Chunk) \div fps
        r3 == (r2 * Chunk) % fps
        c4 == (r3 * Chunk) \div fps
        r4 == (r3 * Chunk) % fps
        g  == (r4 * Chunk) \div fps
        r5 == (r4 * Chunk) % fps
    IN  F64RoundTail([i |-> q0, h |-> c1 * Chunk + c2, l |-> c3 * Chunk + c4],
                     g, r5 # 0)

(***************************************************************************)
(* JavaScript values of a cell field or of main's return value, as tagged  *)
(* strings: "s:..." a string, "n:..." a number, "undef" undefined, "null"  *)
(* null.  "absent" marks a property an object literal does not have.       *)
(***************************************************************************)
Undef == "undef"

Null == "null"

Absent == "absent"

\* Boolean(v) of JavaScript.
Truthy(v) == v \notin {Undef, Null, "s:", "n:0"}

\* A cell with no value at all is just a space.
EMPTY_CELL == "s: "

CellFields == {"char", "color", "backgroundColor", "fontWeight"}

\* What main returns: a value that is no object (v), null, or an object
\* literal (obj, a partial cell whose missing properties are Absent).
Glyph(v) == [type |-> IF v = Undef THEN "undefined"
                      ELSE IF v = "n:0" THEN "number" ELSE "string",
             v |-> v,
             obj |-> [f \in CellFields |-> Absent]]

NullOut == [type |-> "object", v |-> Null, obj |-> [f \in CellFields |-> Absent]]

Partial(o) == [type |-> "object", v |-> "object", obj |-> o]

\* typeof out == 'object' && out !== null
IsMergeable(out) == out.type = "object" /\ out.v # Null

\* { ...cell, ...o }: the properties o has replace the cell's.
Spread(cell, o) ==
    [f \in CellFields |-> IF o[f] # Absent THEN o[f] ELSE cell[f]]

\* Override content: buffer[idx] = out, the cell's other properties lost.
StoreOutOverride(cell, out) ==
    IF out.type = "object" /\ out.v # Null
    THEN [f \in CellFields |-> IF out.obj[f] # Absent THEN out.obj[f] ELSE Undef]
    ELSE [f \in CellFields |-> IF f = "char" THEN out.v ELSE Undef]

\* The two branches of the loop body that store main's return value.
StoreOut(cell, out) ==
    IF IsMergeable(out) THEN Spread(cell, out.obj)
    ELSE [cell EXCEPT !["char"] = out.v]

\* Fix undefined / null / etc.
FixChar(cell) ==
    IF ~Truthy(cell["char"]) /\ cell["char"] # "n:0"
    THEN [cell EXCEPT !["char"] = EMPTY_CELL]
    ELSE cell

MainCell(cell, out) == FixChar(StoreOut(cell, out))

\* Default cell style inserted in case of undefined / null.
DEFAULT_CELL_STYLE(s) ==
    [f \in CellFields |->
        CASE f = "char" -> EMPTY_CELL
          [] f = "color" -> s.color
          [] f = "backgroundColor" -> s.backgroundColor
          [] OTHER -> s.fontWeight]

\* { ...DEFAULT_CELL_STYLE, char: EMPTY_CELL }
NewCell(s) == [DEFAULT_CELL_STYLE(s) EXCEPT !["char"] = EMPTY_CELL]

(***************************************************************************)
(* Bounds of the model.                                                    *)
(***************************************************************************)
\* The host's clock stops at MaxTime ms (the lifecycle runs).
MaxTime == 6

\* The host's clock stops at MaxCellTime ms (the cell runs).
MaxCellTime == 4

\* The host's clock stops at MaxCadenceTime ms (the cadence runs).
MaxCadenceTime == 104
MaxInputTime == 4
MaxReloadTime == 4
MaxRuns == 3
MaxCalls == 2
MaxTextCalls == 1
MaxRenders == 3

\* The target element is at most MaxCols cells wide and MaxRows high.
MaxCols == 2

MaxRows == 2

\* Measured metrics of one cell, in pixels.
CellWidth == 2

LineHeight == 3

HookNames == {"boot", "pre", "main", "post"}

(***************************************************************************)
(* The state of one page: the arguments of run(), the closure variables of *)
(* its promise executor, the host (clock, element size, local storage),    *)
(* and a record of what the last call of loop() did.                       *)
(***************************************************************************)
VARIABLES
    settings,    \* the merged settings of run()
    program,     \* the program: the hooks it defines and what they may do
    host,        \* the host's frame callbacks: [horizon, maxStep]
    now,         \* the timestamp of the last frame callback
    rect,        \* getBoundingClientRect() of the element: [width, height]
    storage,     \* localStorage['currentState']: [present, time, frame, cycle]
    storageOk,   \* FALSE: localStorage throws on every access
    startItem,   \* the stored item when run() was called
    pc,          \* "started" (run() returned), "booted" (boot() ran)
    renderer,    \* "text", "canvas" or "undefined"
    state,       \* [time, frame, cycle]
    timeOffset,  \* state.time when run() set up the loop
    interval,    \* 1000 / settings.fps, binary64
    timeSample,  \* binary64
    cols,        \* -1 is undefined
    rows,
    buffer,      \* the cell buffer, index 0 at position 1
    pointer,     \* [x, y, pressed, px, py, ppressed]
    scheduled,   \* a requestAnimationFrame(loop) is pending
    promise,     \* "pending", "resolved" or "rejected"
    ready,       \* the context the promise was resolved with
    bootCalls,   \* how often program.boot was called
    bootLen,     \* the buffer length and the context boot was handed
    accepts,     \* how many ticks this run accepted
    lastT,       \* the timestamp of the last accepted tick, -1 if none
    lastCursor,  \* the cursor of the last accepted tick
    storeOk,     \* localStorage.setItem works in this run
    starts,      \* per run() since the first: the cycle it started with,
                 \* and whether one of its frames wrote the stored item
    tick,        \* what the last call of loop() did
    target,      \* modules/buffer: the buffer array, index 0 at position 1
    targetCols,
    targetRows,
    op,          \* modules/buffer: the last call and what it returned
    backBuffer,  \* core/textrenderer: the shadow buffer of the module
    textCols,    \* core/textrenderer: cols and rows of the module, -1 is
    textRows,    \* undefined
    dom,         \* per element, the innerHTML of its line elements
    rendered     \* core/textrenderer: the last call of render() and the
                 \* one before it

vars == <<settings, program, host, now, rect, storage, storageOk, startItem, pc,
          renderer, state, timeOffset, interval, timeSample, cols, rows, buffer,
          pointer, scheduled, promise, ready, bootCalls, bootLen, accepts, lastT,
          lastCursor, storeOk, starts, tick, target, targetCols, targetRows,
          op, backBuffer, textCols, textRows, dom, rendered>>

textVars == <<backBuffer, textCols, textRows, dom, rendered>>

libVars == <<target, targetCols, targetRows, op, textVars>>

runVars ==
    <<settings, program, host, now, rect, storage, storageOk, startItem, pc,
      renderer, state, timeOffset, interval, timeSample, cols, rows, buffer,
      pointer, scheduled, promise, ready, bootCalls, bootLen, accepts, lastT,
      lastCursor, storeOk, starts, tick>>

confVars ==
    <<settings, program, host, storageOk, storeOk, startItem, renderer,
      timeOffset, interval>>

(***************************************************************************)
(* modules/buffer.ts: get, set and merge on a buffer of CellValue, a       *)
(* string or a Cell.                                                       *)
(***************************************************************************)
\* The properties an object of the buffer can have: those of Cell, and the
\* index property "0" that spreading a one-character string gives.
BufFields == CellFields \cup {"0"}

NoProps == [f \in BufFields |-> Absent]

\* A CellValue: a string, an object, or undefined (an empty array slot).
Str(g) == [kind |-> "string", s |-> g, obj |-> NoProps]

Obj(o) == [kind |-> "object", s |-> "", obj |-> o]

Hole == [kind |-> "undefined", s |-> "", obj |-> NoProps]

\* target[i]
At(t, i) == IF i >= 0 /\ i < Len(t) THEN t[i + 1] ELSE Hole

\* target[i] = val: an index past the end lengthens the array.
Put(t, i, val) ==
    [k \in 1..(IF i < Len(t) THEN Len(t) ELSE i + 1) |->
        IF k = i + 1 THEN val ELSE At(t, k - 1)]

\* A get that does not check the bounds.
getUnsafe(x, y, t, c, r) == At(t, x + y * c)

get(x, y, t, c, r) ==
    IF x < 0 \/ x >= c THEN Obj(NoProps)
    ELSE IF y < 0 \/ y >= r THEN Obj(NoProps)
    ELSE At(t, x + y * c)

set(val, x, y, t, c, r) ==
    IF x < 0 \/ x >= c THEN t
    ELSE IF y < 0 \/ y >= r THEN t
    ELSE Put(t, x + y * c, val)

\* The own enumerable properties { ...val } copies: those of an object,
\* the characters of a string by index, none of undefined.
OwnProps(val) ==
    IF val.kind = "object" THEN val.obj
    ELSE IF val.kind = "string" /\ val.s # "s:"
         THEN [NoProps EXCEPT !["0"] = val.s]
         ELSE NoProps

\* typeof target[i] === 'object' ? target[i] : { char: target[i] }
Flatten(v) ==
    IF v.kind = "object" THEN v.obj
    ELSE [NoProps EXCEPT !["char"] = IF v.kind = "string" THEN v.s ELSE Undef]

\* { ...cell, ...val }
SpreadProps(cell, o) ==
    [f \in BufFields |-> IF o[f] # Absent THEN o[f] ELSE cell[f]]

\* A merge that replaces the cell by the value.
mergeReplace(val, x, y, t, c, r) == set(val, x, y, t, c, r)

merge(val, x, y, t, c, r) ==
    IF x < 0 \/ x >= c THEN t
    ELSE IF y < 0 \/ y >= r THEN t
    ELSE Put(t, x + y * c,
             Obj(SpreadProps(Flatten(At(t, x + y * c)), OwnProps(val))))

NoOp == [name |-> "none", val |-> Hole, x |-> 0, y |-> 0, before |-> <<>>,
         result |-> Hole, n |-> 0, text |-> <<>>,
         offset |-> [col |-> 0, row |-> 0], wrapInfo |-> <<>>]

\* No program uses the module.
BufferIdle ==
    /\ target = <<>>
    /\ targetCols = 0
    /\ targetRows = 0
    /\ op = NoOp

\* The values a program passes: a glyph, a cell, a partial cell without a
\* char, an object without properties.
Vals ==
    {Str("s:X"),
     Obj([NoProps EXCEPT !["char"] = "s:Y", !["color"] = "s:green"]),
     Obj([NoProps EXCEPT !["backgroundColor"] = "s:gray"]),
     Obj(NoProps)}

\* The coordinates a program passes: in the buffer and just outside it.
Xs == {-1, 0, targetCols - 1, targetCols}

Ys == {-1, 0, targetRows - 1, targetRows}

BufferCall(name, val, x, y, result) ==
    [NoOp EXCEPT !.name = name, !.val = val, !.x = x, !.y = y,
                 !.before = target, !.result = result, !.n = op.n + 1]

Get ==
    /\ op.n < MaxCalls
    /\ \E x \in Xs, y \in Ys :
          op' = BufferCall("get", Hole, x, y,
                        get(x, y, target, targetCols, targetRows))
    /\ UNCHANGED <<target, targetCols, targetRows, runVars, textVars>>

Set ==
    /\ op.n < MaxCalls
    /\ \E val \in Vals, x \in Xs, y \in Ys :
          /\ target' = set(val, x, y, target, targetCols, targetRows)
          /\ op' = BufferCall("set", val, x, y, Hole)
    /\ UNCHANGED <<targetCols, targetRows, runVars, textVars>>

Merge ==
    /\ op.n < MaxCalls
    /\ \E val \in Vals, x \in Xs, y \in Ys :
          /\ target' = merge(val, x, y, target, targetCols, targetRows)
          /\ op' = BufferCall("merge", val, x, y, Hole)
    /\ UNCHANGED <<targetCols, targetRows, runVars, textVars>>

\* line.split('').forEach((char, charNum) => merge({ char, ...mergeObj },
\* x + charNum, row, ...)), from the character at position i on.
RECURSIVE MergeChars(_, _, _, _, _, _, _, _)
MergeChars(line, i, x, row, t, c, r, mergeObj) ==
    IF i > Len(line) THEN t
    ELSE MergeChars(line, i + 1, x, row,
                    merge(Obj(SpreadProps([NoProps EXCEPT !["char"] = line[i]],
                                          mergeObj)),
                          x + i - 1, row, t, c, r),
                    c, r, mergeObj)

\* text.split('\n').forEach(...), from line j on: acc carries the buffer,
\* col and wrapInfo.
RECURSIVE MergeLines(_, _, _, _, _, _, _, _)
MergeLines(lines, j, x, y, acc, c, r, mergeObj) ==
    IF j > Len(lines) THEN acc
    ELSE LET line == lines[j]
             row  == y + j - 1
             t    == MergeChars(line, 1, x, row, acc.t, c, r, mergeObj)
         IN  MergeLines(lines, j + 1, x, y,
                        [t |-> t,
                         col |-> IF Len(line) > 0 THEN x + Len(line) - 1
                                 ELSE acc.col,
                         wrapInfo |-> Append(acc.wrapInfo,
                            [first |-> get(x, row, t, c, r),
                             last |-> get(x + Len(line) - 1, row, t, c, r)])],
                        c, r, mergeObj)

\* A mergeText that returns the coordinate after the last character.
mergeTextPast(lines, mergeObj, x, y, t, c, r) ==
    LET acc == MergeLines(lines, 1, x, y,
                          [t |-> t, col |-> x, wrapInfo |-> <<>>], c, r,
                          mergeObj)
    IN  [t |-> acc.t,
         offset |-> [col |-> acc.col + 1, row |-> y + Len(lines) - 1],
         wrapInfo |-> acc.wrapInfo]

\* mergeText(textObj, x, y, target, targetCols, targetRows): the text as
\* its lines, each the sequence of its characters; mergeObj is the text
\* object without its text, without properties for a plain string.
mergeText(lines, mergeObj, x, y, t, c, r) ==
    LET acc == MergeLines(lines, 1, x, y,
                          [t |-> t, col |-> x, wrapInfo |-> <<>>], c, r,
                          mergeObj)
        row == y + Len(lines)
    IN  [t |-> acc.t,
         offset |-> [col |-> acc.col,
                     row |-> IF row - 1 > y THEN row - 1 ELSE y],
         wrapInfo |-> acc.wrapInfo]

\* The texts a program passes: 'AB\nCD', 'AB\n', 'A' and ''.
Texts ==
    {<<<<"s:A", "s:B">>, <<"s:C", "s:D">>>>,
     <<<<"s:A", "s:B">>, <<>>>>,
     <<<<"s:A">>>>,
     <<<<>>>>}

\* A plain string, and a text object with a color.
TextStyles == {NoProps, [NoProps EXCEPT !["color"] = "s:green"]}

MergeText ==
    /\ op.n < MaxTextCalls
    /\ \E lines \in Texts, mergeObj \in TextStyles, x \in Xs, y \in Ys :
        \E res \in {mergeText(lines, mergeObj, x, y, target, targetCols,
                              targetRows)} :
          /\ target' = res.t
          /\ op' = [BufferCall("mergeText", Obj(mergeObj), x, y, Hole)
                      EXCEPT !.text = lines, !.offset = res.offset,
                             !.wrapInfo = res.wrapInfo]
    /\ UNCHANGED <<targetCols, targetRows, runVars, textVars>>

(***************************************************************************)
(* core/textrenderer.ts: render() on the shadow buffer of the module.      *)
(***************************************************************************)
\* The properties render() reads of a cell; a missing one is undefined.
RenderFields == CellFields \cup {"beginHTML", "endHTML"}

StyleFields == {"fontWeight", "color", "backgroundColor"}

\* {}: prevCell at the start of a row and after raw markup.
EmptyCell == [f \in RenderFields |-> Undef]

\* backBuffer[idx]: undefined past the end of the array.
HasShadow(bb, idx) == idx < Len(bb)

\* isSameCell(cellA, cellB), cellB undefined when hasB is FALSE.
isSameCell(cellA, hasB, cellB) ==
    /\ hasB
    /\ cellA["char"] = cellB["char"]
    /\ \A f \in StyleFields : cellA[f] = cellB[f]

isSameCellStyle(cellA, cellB) == \A f \in StyleFields : cellA[f] = cellB[f]

\* The markup is a sequence of pieces <<kind, a, b, c>>: an opening span
\* with its color, background and font-weight ("" when left out), a
\* closing span, a glyph, raw markup of a cell.
OpenTag(cell, defaults) ==
    LET Attr(f) == IF cell[f] = defaults[f] \/ ~Truthy(cell[f]) THEN ""
                   ELSE cell[f]
    IN  <<"open", Attr("color"), Attr("backgroundColor"), Attr("fontWeight")>>

CloseTag == <<"close", "", "", "">>

\* One cell of the inner loop over i: m carries html, prevCell, tagIsOpen.
CellMarkup(m, cell, defaults) ==
    LET m1 == IF Truthy(cell["beginHTML"])
              THEN [html |-> (IF m.open THEN m.html \o <<CloseTag>> ELSE m.html)
                               \o <<<<"raw", cell["beginHTML"], "", "">>>>,
                    prev |-> IF m.open THEN EmptyCell ELSE m.prev,
                    open |-> FALSE]
              ELSE m
        m2 == IF ~isSameCellStyle(cell, m1.prev)
              THEN [html |-> (IF m1.open THEN m1.html \o <<CloseTag>>
                              ELSE m1.html) \o <<OpenTag(cell, defaults)>>,
                    prev |-> m1.prev, open |-> TRUE]
              ELSE m1
        m3 == [html |-> m2.html \o <<<<"char", cell["char"], "", "">>>>,
               prev |-> cell, open |-> m2.open]
    IN  IF Truthy(cell["endHTML"])
        THEN [html |-> (IF m3.open THEN m3.html \o <<CloseTag>> ELSE m3.html)
                         \o <<<<"raw", cell["endHTML"], "", "">>>>,
              prev |-> IF m3.open THEN EmptyCell ELSE m3.prev,
              open |-> FALSE]
        ELSE m3

RECURSIVE RowFrom(_, _, _, _, _, _)
RowFrom(m, buf, j, i, c, defaults) ==
    IF i >= c THEN (IF m.open THEN m.html \o <<CloseTag>> ELSE m.html)
    ELSE RowFrom(CellMarkup(m, buf[i + j * c + 1], defaults), buf, j, i + 1,
                 c, defaults)

\* The html render() accumulates for row j.
RowMarkup(buf, j, c, defaults) ==
    RowFrom([html |-> <<>>, prev |-> EmptyCell, open |-> FALSE], buf, j, 0, c,
            defaults)

\* The cells of row j that are not the same as their shadow entry.
RowDiff(buf, bb, j, c) ==
    {i \in 0..(c - 1) :
        ~isSameCell(buf[i + j * c + 1], HasShadow(bb, i + j * c),
                    IF HasShadow(bb, i + j * c) THEN bb[i + j * c + 1]
                    ELSE EmptyCell)}

\* A commit that copies every cell of a row that needs an update.
ShadowOfRows(buf, bb, c, r) ==
    [k \in 1..(c * r) |->
        IF RowDiff(buf, bb, (k - 1) \div c, c) # {} \/ k > Len(bb)
        THEN buf[k] ELSE bb[k]]

\* backBuffer[idx] = { ...newCell } for the cells that differ, row by row.
CommitShadow(buf, bb, c, r) ==
    LET changed == UNION {{i + j * c : i \in RowDiff(buf, bb, j, c)} :
                             j \in 0..(r - 1)}
        top     == IF changed = {} THEN Len(bb)
                   ELSE LET mx == CHOOSE k \in changed :
                                     \A l \in changed : l <= k
                        IN  IF mx + 1 > Len(bb) THEN mx + 1 ELSE Len(bb)
    IN  [k \in 1..top |->
            IF (k - 1) \in changed THEN buf[k] ELSE bb[k]]

\* Detect resize: backBuffer.length = 0.
ShadowAfterResize(bb, c, r) ==
    IF r # textRows \/ c # textCols THEN <<>> ELSE bb

\* A renderer that writes every row.
RowsToWriteAll(buf, bb, c, r) == 0..(r - 1)

\* The rows whose rowNeedsUpdate is true.
RowsToWrite(buf, bb, c, r) == {j \in 0..(r - 1) : RowDiff(buf, bb, j, c) # {}}

\* The line elements after the expand and shorten loops and the writes.
Lines(old, buf, bb, c, r, defaults) ==
    [j \in 1..r |->
        IF (j - 1) \in RowsToWrite(buf, bb, c, r)
        THEN RowMarkup(buf, j - 1, c, defaults)
        ELSE IF j <= Len(old) THEN old[j] ELSE <<>>]

Elements == {"e1", "e2"}

NoRender ==
    [n |-> 0, element |-> "", cols |-> -1, rows |-> -1, buffer |-> <<>>,
     defaults |-> EmptyCell, writes |-> {}, shadow |-> <<>>,
     elements |-> {},
     prev |-> [element |-> "", cols |-> -1, rows |-> -1, buffer |-> <<>>]]

\* The module is loaded and render() has not been called.
TextIdle ==
    /\ backBuffer = <<>>
    /\ textCols = -1
    /\ textRows = -1
    /\ dom = [e \in Elements |-> <<>>]
    /\ rendered = NoRender

\* The cells of the frames: a plain cell, a red cell with another glyph, a
\* plain cell with raw markup before its glyph.
PlainCell == [EmptyCell EXCEPT !["char"] = "s:a"]

RedCell == [EmptyCell EXCEPT !["char"] = "s:b", !["color"] = "s:red"]

LinkCell == [PlainCell EXCEPT !["beginHTML"] = "s:<a>", !["endHTML"] = "s:</a>"]

\* The grids render() is called with: one cell, the whole grid, or the
\* grid of an element that is narrower than a cell.
RenderDims == {<<1, 1>>, <<MaxCols, MaxRows>>, <<0, 1>>}

\* The buffers of a grid: all plain; the last cell of the first row red;
\* the first cell a link.
RenderBuffers(c, r) ==
    LET plain == [k \in 1..(c * r) |-> PlainCell]
    IN  IF c * r = 0 THEN {plain}
        ELSE {plain, [plain EXCEPT ![c] = RedCell],
              [plain EXCEPT ![1] = LinkCell]}

\* settings.color, backgroundColor and fontWeight: none, or red text.
RenderDefaults == {EmptyCell, [EmptyCell EXCEPT !["color"] = "s:red"]}

\* render(context, buffer) of the text renderer for the element e.
Render ==
    /\ rendered.n < MaxRenders
    /\ \E e \in Elements, dims \in RenderDims, defaults \in RenderDefaults :
       \E buf \in RenderBuffers(dims[1], dims[2]) :
       \E bb \in {ShadowAfterResize(backBuffer, dims[1], dims[2])} :
          /\ textCols' = dims[1]
          /\ textRows' = dims[2]
          /\ backBuffer' = CommitShadow(buf, bb, dims[1], dims[2])
          /\ dom' = [dom EXCEPT
                       ![e] = Lines(@, buf, bb, dims[1], dims[2], defaults)]
          /\ rendered' =
                [n |-> rendered.n + 1, element |-> e, cols |-> dims[1],
                 rows |-> dims[2], buffer |-> buf, defaults |-> defaults,
                 writes |-> RowsToWrite(buf, bb, dims[1], dims[2]),
                 shadow |-> bb,
                 elements |-> rendered.elements \cup {e},
                 prev |-> [element |-> rendered.element,
                           cols |-> rendered.cols, rows |-> rendered.rows,
                           buffer |-> rendered.buffer]]
    /\ UNCHANGED <<runVars, target, targetCols, targetRows, op>>

(***************************************************************************)
(* run(): the promise executor.                                            *)
(***************************************************************************)
\* A restore that takes the time of the item and leaves the frame.
RestoreTimeOnly(store, ok, into) ==
    IF ok /\ store.present THEN [into EXCEPT !.time = store.time] ELSE into

\* storage.restore(key, state): a failure or a missing item leaves the
\* object it restores into as it is.
Restore(store, ok, into) ==
    IF ok /\ store.present
    THEN [time |-> store.time, frame |-> store.frame, cycle |-> store.cycle]
    ELSE into

\* storage.store(key, state): a failure is swallowed.
Store(store, ok, st) ==
    IF ok
    THEN [present |-> TRUE, time |-> st.time, frame |-> st.frame,
          cycle |-> st.cycle]
    ELSE store

\* A start that restores whatever restoreState says.
StartStateAlways(s, store, ok) ==
    LET st == Restore(store, ok, [time |-> 0, frame |-> 0, cycle |-> 0])
    IN  [st EXCEPT !.cycle = @ + 1]

\* A start that restores but does not count the cycle.
StartStateNoCycle(s, store, ok) ==
    IF s.restoreState
    THEN Restore(store, ok, [time |-> 0, frame |-> 0, cycle |-> 0])
    ELSE [time |-> 0, frame |-> 0, cycle |-> 0]

\* The state object after the restore and the cycle count.
StartState(s, store, ok) ==
    LET fresh == [time |-> 0, frame |-> 0, cycle |-> 0]
        st    == Restore(store, ok, fresh)
    IN  IF s.restoreState THEN [st EXCEPT !.cycle = @ + 1] ELSE fresh

\* The renderer run() chooses; "undefined" when the element does not match.
ChooseRenderer(s) ==
    IF s.element = "null" THEN s.rendererType
    ELSE IF s.rendererType = "canvas"
         THEN (IF s.element = "CANVAS" THEN "canvas" ELSE "undefined")
         ELSE (IF s.element # "CANVAS" THEN "text" ELSE "undefined")

\* settings.element after run(): a missing element is created.
StartElement(s) ==
    IF s.element = "null"
    THEN (IF s.rendererType = "canvas" THEN "CANVAS" ELSE "PRE")
    ELSE s.element

\* getContext(): the frozen snapshot handed to the hooks.
\* A context built after the frame state has advanced.
GetContextAdvanced ==
    [frame |-> state.frame + 1,
     time  |-> state.time,
     cols  |-> IF settings.cols # 0 THEN settings.cols
               ELSE rect.width \div CellWidth,
     rows  |-> IF settings.rows # 0 THEN settings.rows
               ELSE rect.height \div LineHeight,
     cycle |-> state.cycle]

GetContext ==
    [frame |-> state.frame,
     time  |-> state.time,
     cols  |-> IF settings.cols # 0 THEN settings.cols
               ELSE rect.width \div CellWidth,
     rows  |-> IF settings.rows # 0 THEN settings.rows
               ELSE rect.height \div LineHeight,
     cycle |-> state.cycle]

NoCtx == [frame |-> -1, time |-> -1, cols |-> -1, rows |-> -1, cycle |-> -1]

Call(hook, x, y, index, len, ctx) ==
    [hook |-> hook, x |-> x, y |-> y, index |-> index, len |-> len,
     cols |-> ctx.cols, rows |-> ctx.rows]

NoCell == [f \in CellFields |-> Undef]

NoCursor ==
    [x |-> <<0, 1>>, y |-> <<0, 1>>, pressed |-> FALSE,
     p |-> [x |-> <<0, 1>>, y |-> <<0, 1>>, pressed |-> FALSE]]

NoTick ==
    [t |-> -1, accepted |-> FALSE, tsBefore |-> F64FromInt(0),
     ctx |-> NoCtx, cursor |-> NoCursor, calls |-> <<>>, cells |-> <<>>,
     oldBuf |-> <<>>, preBuf |-> <<>>, threw |-> "", prevT |-> -1,
     prevCursor |-> NoCursor, dims |-> <<-1, -1>>, prevDims |-> <<-1, -1>>]

RunWith(Sets, Progs, Hosts, Stores, Oks) ==
    /\ \E s \in Sets :
          /\ settings = [s EXCEPT !.element = StartElement(s)]
          /\ renderer = ChooseRenderer(s)
    /\ program \in Progs
    /\ host \in Hosts
    /\ storage \in Stores
    /\ storageOk \in Oks
    /\ storeOk = storageOk
    /\ startItem = storage
    /\ state = StartState(settings, storage, storageOk)
    /\ timeOffset = state.time
    /\ interval = F64Div1000(settings.fps)
    /\ timeSample = F64FromInt(0)
    /\ now = 0
    /\ rect = [width |-> CellWidth + 1, height |-> LineHeight]
    /\ pc = "started"
    /\ cols = -1
    /\ rows = -1
    /\ buffer = <<>>
    /\ pointer = [x |-> 0, y |-> 0, pressed |-> FALSE,
                  px |-> 0, py |-> 0, ppressed |-> FALSE]
    /\ scheduled = FALSE
    /\ promise = "pending"
    /\ ready = NoCtx
    /\ bootCalls = 0
    /\ bootLen = <<-1, -1>>
    /\ accepts = 0
    /\ lastT = -1
    /\ lastCursor = NoCursor
    /\ starts = <<[cycle |-> state.cycle, wrote |-> FALSE]>>
    /\ tick = NoTick

InitWith(Sets, Progs, Hosts, Stores, Oks) ==
    RunWith(Sets, Progs, Hosts, Stores, Oks) /\ BufferIdle /\ TextIdle

(***************************************************************************)
(* boot(): metrics, the context, program.boot if defined, the first        *)
(* requestAnimationFrame(loop).  A boot hook that throws leaves the loop   *)
(* unscheduled.                                                            *)
(***************************************************************************)
Boot ==
    /\ pc = "started"
    /\ pc' = "booted"
    /\ \E throws \in {FALSE} \cup {program.throws /\ "boot" \in program.hooks} :
          /\ scheduled' = ~throws
    /\ bootCalls' = IF "boot" \in program.hooks THEN bootCalls + 1 ELSE bootCalls
    /\ bootLen' = IF "boot" \in program.hooks
                  THEN <<Len(buffer), GetContext.cols * GetContext.rows>>
                  ELSE bootLen
    /\ UNCHANGED <<libVars, confVars,
                   now, rect, storage, state, timeSample, cols, rows,
                   buffer, pointer, promise, ready, accepts, lastT, lastCursor,
                   starts, tick>>

\* The sizes of the element, in cells: one cell, or the whole grid.
RectSizes == {<<1, 1>>, <<MaxCols, MaxRows>>}

\* The element is resized between two frames.
Resize ==
    /\ \E size \in RectSizes :
          /\ rect' = [width |-> size[1] * CellWidth + 1,
                      height |-> size[2] * LineHeight]
          /\ rect' # rect
    /\ UNCHANGED <<libVars, confVars,
                   now, storage, pc, state, timeSample, cols, rows,
                   buffer, pointer, scheduled, promise, ready, bootCalls, bootLen,
                   accepts, lastT, lastCursor, starts, tick>>

\* Where a pointer event may land, as the offset from the element's left
\* top corner: the corner, the second cell, the last pixel.
PointerSpots ==
    {<<0, 0>>, <<CellWidth, LineHeight>>, <<rect.width - 1, rect.height - 1>>}

\* The pointermove listener (and the touch handler): pointer.x and
\* pointer.y are the offset of the event from the element.  The listeners
\* also push the name of the event on eventQueue, an array of the closure
\* that no code reads; it is left out of the state.
PointerMove ==
    /\ \E spot \in PointerSpots :
          /\ pointer' = [pointer EXCEPT !.x = spot[1], !.y = spot[2]]
          /\ pointer' # pointer
    /\ UNCHANGED <<libVars, confVars,
                   now, rect, storage, pc, state, timeSample, cols,
                   rows, buffer, scheduled, promise, ready, bootCalls, bootLen,
                   accepts, lastT, lastCursor, starts, tick>>

\* The pointerdown listener.
PointerDown ==
    /\ ~pointer.pressed
    /\ pointer' = [pointer EXCEPT !.pressed = TRUE]
    /\ UNCHANGED <<libVars, confVars,
                   now, rect, storage, pc, state, timeSample, cols,
                   rows, buffer, scheduled, promise, ready, bootCalls, bootLen,
                   accepts, lastT, lastCursor, starts, tick>>

\* The pointerup listener.
PointerUp ==
    /\ pointer.pressed
    /\ pointer' = [pointer EXCEPT !.pressed = FALSE]
    /\ UNCHANGED <<libVars, confVars,
                   now, rect, storage, pc, state, timeSample, cols,
                   rows, buffer, scheduled, promise, ready, bootCalls, bootLen,
                   accepts, lastT, lastCursor, starts, tick>>

\* A gate that lets every tick through.
GateOpen(delta, ival) == FALSE

(***************************************************************************)
(* loop(t): the pieces of one accepted frame.                              *)
(***************************************************************************)
\* if (delta < interval): skip the frame.
Gate(delta, ival) == F64Less(delta, ival)

\* A time sample that drops the remainder: timeSample = t.
NextTimeSampleDrift(t, delta, ival) == F64FromInt(t)

\* timeSample = t - delta % interval
NextTimeSample(t, delta, ival) ==
    F64Sub(F64FromInt(t), F64Fmod(delta, ival))

\* A frame state that forgets the restored offset: state.time = t.
NextStateNoOffset(st, t, offset) == [st EXCEPT !.time = t, !.frame = @ + 1]

\* state.time = t + timeOffset; state.frame++
NextState(st, t, offset) ==
    [st EXCEPT !.time = t + offset, !.frame = @ + 1]

\* A cursor that is not clamped to the grid.
MinIntFracOff(k, q) == q

\* pointer.x / metrics.cellWidth as the fraction <<numerator, denominator>>.
Frac(n, d) == <<n, d>>

\* Math.min(k, q) for an integer k and a fraction q.
MinIntFrac(k, q) == IF k * q[2] <= q[1] THEN Frac(k, 1) ELSE q

\* The cursor of the frame.
Cursor(ctx, p) ==
    [x |-> MinIntFrac(ctx.cols - 1, Frac(p.x, CellWidth)),
     y |-> MinIntFrac(ctx.rows - 1, Frac(p.y, LineHeight)),
     pressed |-> p.pressed,
     p |-> [x |-> Frac(p.px, CellWidth),
            y |-> Frac(p.py, LineHeight),
            pressed |-> p.ppressed]]

\* Pointer: store previous state.
NextPointer(p) == [p EXCEPT !.px = p.x, !.py = p.y, !.ppressed = p.pressed]

\* A loop that never normalizes the buffer.
NormalizeNever(buf, c, r, ctx, s) == buf

\* A resize that only sets the length and fills the new slots.
NormalizeKeep(buf, c, r, ctx, s) ==
    IF c # ctx.cols \/ r # ctx.rows
    THEN [k \in 1..(ctx.cols * ctx.rows) |->
             IF k <= Len(buf) THEN buf[k] ELSE NewCell(s)]
    ELSE buf

\* In case of resize / init normalize the buffer: a new length and a new
\* default cell at every index.
NormalizeBuffer(buf, c, r, ctx, s) ==
    IF c # ctx.cols \/ r # ctx.rows
    THEN [k \in 1..(ctx.cols * ctx.rows) |-> NewCell(s)]
    ELSE buf

\* for (j < rows) { offs = j * cols; for (i < cols) { idx = i + offs } }
RECURSIVE RowCoords(_, _, _)
RowCoords(j, i, ctx) ==
    IF i >= ctx.cols THEN <<>>
    ELSE <<[x |-> i, y |-> j, index |-> i + j * ctx.cols]>>
         \o RowCoords(j, i + 1, ctx)

RECURSIVE GridCoords(_, _)
GridCoords(j, ctx) ==
    IF j >= ctx.rows THEN <<>>
    ELSE RowCoords(j, 0, ctx) \o GridCoords(j + 1, ctx)

\* Column-major calls: x outer, y inner.
CellOrderColumns(ctx) ==
    [k \in 1..(ctx.cols * ctx.rows) |->
        [x |-> (k - 1) \div ctx.rows, y |-> (k - 1) % ctx.rows,
         index |-> ((k - 1) \div ctx.rows) + ((k - 1) % ctx.rows) * ctx.cols]]

\* The coordinates main is called with, in the order of the calls.
CellOrder(ctx) == GridCoords(0, ctx)

\* What main returns for the cell at idx in a frame of the given phase.
MainOut(phase, idx) ==
    program.outs[((phase + idx) % Len(program.outs)) + 1]

\* One frame passes a record through its steps: the buffer, the calls made
\* so far, what main did to each cell, and the hook that threw ("" if none).
Called(r, call) == [r EXCEPT !.calls = Append(@, call)]

\* pre and post: called with the buffer; the hook returns, having written
\* one cell or none, or throws.
StepHook(r, name, act, ctx) ==
    IF r.threw # "" \/ name \notin program.hooks THEN r
    ELSE LET c == Called(r, Call(name, -1, -1, -1, Len(r.buf), ctx))
         IN  CASE act.kind = "throw" -> [c EXCEPT !.threw = name]
               [] act.kind = "write" /\ act.index < Len(r.buf) ->
                    [c EXCEPT !.buf[act.index + 1] = act.cell]
               [] OTHER -> c

\* buffer[idx]: undefined past the end, and spreading undefined gives no
\* properties.
BufGet(buf, idx) == IF idx < Len(buf) THEN buf[idx + 1] ELSE NoCell

\* buffer[idx] = cell: an assignment past the end lengthens the array.
BufSet(buf, idx, cell) ==
    [k \in 1..(IF idx < Len(buf) THEN Len(buf) ELSE idx + 1) |->
        IF k = idx + 1 THEN cell ELSE BufGet(buf, k - 1)]

RECURSIVE MainFrom(_, _, _, _, _, _)
MainFrom(r, coords, k, ctx, phase, throwAt) ==
    IF k > Len(coords) THEN r
    ELSE LET co == coords[k]
             c  == Called(r, Call("main", co.x, co.y, co.index, Len(r.buf), ctx))
         IN  IF co.index = throwAt THEN [c EXCEPT !.threw = "main"]
             ELSE LET out    == MainOut(phase, co.index)
                      before == BufGet(r.buf, co.index)
                      after  == MainCell(before, out)
                  IN  MainFrom([c EXCEPT !.buf = BufSet(@, co.index, after),
                                         !.cells = Append(@,
                                            [index |-> co.index,
                                             before |-> before,
                                             out |-> out,
                                             after |-> after])],
                               coords, k + 1, ctx, phase, throwAt)

StepMain(r, ctx, phase, throwAt) ==
    IF r.threw # "" \/ "main" \notin program.hooks THEN r
    ELSE MainFrom(r, CellOrder(ctx), 1, ctx, phase, throwAt)

\* renderer.render(context, buffer, settings): a TypeError when run() chose
\* no renderer.
StepRender(r, ctx) ==
    IF r.threw # "" THEN r
    ELSE IF renderer = "undefined" THEN [r EXCEPT !.threw = "render"]
    ELSE Called(r, Call("render", -1, -1, -1, Len(r.buf), ctx))

\* Steps 2 to 5 of the loop body.
FrameSteps(buf, ctx, pre, phase, throwAt, post) ==
    LET r0 == [buf |-> buf, calls |-> <<>>, cells |-> <<>>, threw |-> ""]
        r1 == StepHook(r0, "pre", pre, ctx)
        r2 == StepMain(r1, ctx, phase, throwAt)
        r3 == StepHook(r2, "post", post, ctx)
    IN  StepRender(r3, ctx)

\* A reschedule made before the hooks run: a throw does not undo it.
RescheduledFirst(threw) == ~settings.once

\* if (!settings.once) requestAnimationFrame(loop): reached only when no
\* step threw.
Rescheduled(threw) == threw = "" /\ ~settings.once

\* A promise that is resolved before the hooks of the frame have run.
SettledEarly(p, threw) == IF p = "pending" THEN "resolved" ELSE p

\* resolve(context): reached only when no step threw; a settled promise
\* stays as it is.
Settled(p, threw) == IF threw = "" /\ p = "pending" THEN "resolved" ELSE p

\* What a hook may do in one call.
NoAct == [kind |-> "none", index |-> -1, cell |-> NoCell]

HookActs(name) ==
    IF name \notin program.hooks THEN {NoAct}
    ELSE {NoAct}
         \cup {[kind |-> "write", index |-> 0, cell |-> c] :
                  c \in program.writes[name]}
         \cup (IF program.throws
               THEN {[kind |-> "throw", index |-> -1, cell |-> NoCell]}
               ELSE {})

Phases == IF "main" \in program.hooks THEN 0..(Len(program.outs) - 1) ELSE {0}

ThrowAts(ctx) ==
    IF "main" \in program.hooks /\ program.throws
    THEN -1..(ctx.cols * ctx.rows - 1)
    ELSE {-1}

\* The tick is too early: reschedule unless in once mode, and return.
\* A skipped tick that counts as a frame.
SkipCounting(t) ==
    /\ scheduled' = ~settings.once
    /\ now' = t
    /\ state' = [state EXCEPT !.frame = @ + 1]
    /\ tick' = [NoTick EXCEPT !.t = t, !.tsBefore = timeSample,
                              !.prevT = lastT,
                              !.dims = tick.dims, !.prevDims = tick.dims]
    /\ UNCHANGED <<libVars, confVars,
                   rect, storage, pc, timeSample, cols, rows,
                   buffer, pointer, promise, ready, bootCalls, bootLen, accepts,
                   lastT, lastCursor, starts>>

\* The tick is rejected: Skip the frame.
Skip(t) ==
    /\ scheduled' = ~settings.once
    /\ now' = t
    /\ tick' = [NoTick EXCEPT !.t = t, !.tsBefore = timeSample,
                              !.prevT = lastT,
                              !.dims = tick.dims, !.prevDims = tick.dims]
    /\ UNCHANGED <<libVars, confVars,
                   rect, storage, pc, state, timeSample, cols, rows,
                   buffer, pointer, promise, ready, bootCalls, bootLen, accepts,
                   lastT, lastCursor, starts>>

\* The tick is accepted: the body of the loop from the context snapshot on.
Accept(t, delta, pre, phase, throwAt, post) ==
    \E ctx \in {GetContext} :
    \E norm \in {NormalizeBuffer(buffer, cols, rows, ctx, settings)} :
    \E r \in {FrameSteps(norm, ctx, pre, phase, throwAt, post)} :
        /\ timeSample' = NextTimeSample(t, delta, interval)
        /\ state' = NextState(state, t, timeOffset)
        /\ storage' = Store(storage, storeOk, state')
        /\ starts' = [starts EXCEPT ![Len(starts)].wrote = @ \/ storeOk]
        /\ pointer' = NextPointer(pointer)
        /\ cols' = ctx.cols
        /\ rows' = ctx.rows
        /\ buffer' = r.buf
        /\ scheduled' = Rescheduled(r.threw)
        /\ promise' = Settled(promise, r.threw)
        /\ ready' = IF promise' # promise THEN ctx ELSE ready
        /\ now' = t
        /\ accepts' = accepts + 1
        /\ lastT' = t
        /\ lastCursor' = Cursor(ctx, pointer)
        /\ tick' = [t |-> t, accepted |-> TRUE, tsBefore |-> timeSample,
                    ctx |-> ctx, cursor |-> Cursor(ctx, pointer),
                    calls |-> r.calls, cells |-> r.cells,
                    oldBuf |-> buffer, preBuf |-> norm,
                    threw |-> r.threw, prevT |-> lastT,
                    prevCursor |-> lastCursor,
                    dims |-> <<ctx.cols, ctx.rows>>, prevDims |-> tick.dims]
        /\ UNCHANGED <<libVars, confVars,
                   rect, pc, bootCalls, bootLen>>

\* loop(t), called by the host for a pending requestAnimationFrame.
Loop(t) ==
    /\ pc = "booted"
    /\ scheduled
    /\ \E delta \in {F64Sub(F64FromInt(t), timeSample)} :
          IF Gate(delta, interval)
          THEN Skip(t)
          ELSE \E pre \in HookActs("pre"), post \in HookActs("post"),
                  phase \in Phases, throwAt \in ThrowAts(GetContext) :
                  Accept(t, delta, pre, phase, throwAt, post)

\* The host's next frame callback: timestamps never decrease.
Tick ==
    \E t \in now..host.horizon :
        /\ t - now <= host.maxStep
        /\ Loop(t)

Next == Boot \/ Resize \/ Tick

\* localStorage in a run: getItem and setItem work; setItem throws (the
\* quota is exceeded); every access throws.
StorageModes == {<<TRUE, TRUE>>, <<TRUE, FALSE>>, <<FALSE, FALSE>>}

\* The page is reloaded and run() is called again, with restoreState on or
\* off, on the store as the earlier runs left it.  The timestamps of the
\* host start again at 0.
Reload ==
    /\ Len(starts) < MaxRuns
    /\ \E rs \in BOOLEAN, mode \in StorageModes :
          /\ settings' = [settings EXCEPT !.restoreState = rs]
          /\ storageOk' = mode[1]
          /\ storeOk' = mode[2]
    /\ startItem' = storage
    /\ state' = StartState(settings', storage, storageOk')
    /\ timeOffset' = state'.time
    /\ starts' = Append(starts, [cycle |-> state'.cycle, wrote |-> FALSE])
    /\ timeSample' = F64FromInt(0)
    /\ now' = 0
    /\ pc' = "started"
    /\ cols' = -1
    /\ rows' = -1
    /\ buffer' = <<>>
    /\ pointer' = [x |-> 0, y |-> 0, pressed |-> FALSE,
                   px |-> 0, py |-> 0, ppressed |-> FALSE]
    /\ scheduled' = FALSE
    /\ promise' = "pending"
    /\ ready' = NoCtx
    /\ bootCalls' = 0
    /\ bootLen' = <<-1, -1>>
    /\ accepts' = 0
    /\ lastT' = -1
    /\ lastCursor' = NoCursor
    /\ tick' = NoTick
    /\ UNCHANGED <<libVars, program, host, renderer, interval, rect,
                   storage>>

(***************************************************************************)
(* The runs that are checked.                                              *)
(***************************************************************************)
\* The settings of run() after the merge over defaultSettings.
Settings(element, rendererType, once, fps, restoreState, c, r, style) ==
    [element |-> element, rendererType |-> rendererType, once |-> once,
     fps |-> fps, restoreState |-> restoreState, cols |-> c, rows |-> r,
     color |-> style[1], backgroundColor |-> style[2],
     fontWeight |-> style[3]]

NoStyle == <<Undef, Undef, Undef>>

NoItem == [present |-> FALSE, time |-> 0, frame |-> 0, cycle |-> 0]

\* A record an earlier run left in local storage.
OldItem == [present |-> TRUE, time |-> 5, frame |-> 2, cycle |-> 1]

\* The element given to run() and the renderer asked for: a text element
\* for the text renderer, and a text element for the canvas renderer (a
\* mismatch).
Targets == {<<"PRE", "text">>, <<"PRE", "canvas">>}

\* restoreState, the stored item, and whether local storage works.
Persistence == {<<FALSE, NoItem, TRUE>>, <<TRUE, OldItem, TRUE>>}

LifecycleFps == {500}

CadenceFps == {30, 50}

\* A program whose main returns one glyph and whose hooks may throw.
PlainProgram(hooks, throws) ==
    [hooks |-> hooks, outs |-> <<Glyph("s:X")>>,
     writes |-> [h \in HookNames |-> {}], throws |-> throws]

\* The lifecycle runs: every set of hooks, every target, once or not,
\* with and without a restored state; any non-decreasing timestamps.
Init ==
    \E tg \in Targets, ps \in Persistence :
        InitWith({Settings(tg[1], tg[2], once, fps, ps[1], 0, 0, NoStyle) :
                     once \in BOOLEAN, fps \in LifecycleFps},
                 {PlainProgram(h, TRUE) : h \in SUBSET HookNames},
                 {[horizon |-> MaxTime, maxStep |-> MaxTime]},
                 {ps[2]}, {ps[3]})

Spec == Init /\ [][Next]_vars

\* The cadence runs: a fresh run whose ticks start at 0 and arrive at most
\* one interval apart.
InitCadence ==
    \E fps \in CadenceFps :
        InitWith({Settings("PRE", "text", FALSE, fps, FALSE, 0, 0, NoStyle)},
                 {PlainProgram({"main"}, FALSE)},
                 {[horizon |-> MaxCadenceTime, maxStep |-> 1000 \div fps]},
                 {NoItem}, {TRUE})

SpecCadence == InitCadence /\ [][Next]_vars

\* Cells the pre and post hooks write: a styled cell, and a cell without
\* a char (the Cell type makes every property optional).
StyledCell ==
    [f \in CellFields |->
        CASE f = "char" -> "s:Q" [] f = "color" -> "s:red"
          [] f = "backgroundColor" -> "s:blue" [] OTHER -> "s:bold"]

CharlessCell == [NoCell EXCEPT !["color"] = "s:red"]

NoFields == [f \in CellFields |-> Absent]

\* What main returns, cell after cell: a glyph, { color }, null, 0,
\* undefined, { char, backgroundColor }, '' and { char: '' }.
OutSeq ==
    << Glyph("s:X"),
       Partial([NoFields EXCEPT !["color"] = "s:green"]),
       NullOut,
       Glyph("n:0"),
       Glyph(Undef),
       Partial([NoFields EXCEPT !["char"] = "s:Y",
                                !["backgroundColor"] = "s:gray"]),
       Glyph("s:"),
       Partial([NoFields EXCEPT !["char"] = "s:"]) >>

\* The default style of the settings: none, or a colour, a background and
\* a weight.
Styles == {NoStyle, <<"s:white", "s:black", "n:300">>}

\* The cell runs: pre, main and post defined, main returning every kind
\* of value, the element resized between frames.
InitCells ==
    InitWith({Settings("PRE", "text", FALSE, fps, FALSE, 0, 0, st) :
                 fps \in LifecycleFps, st \in Styles},
             {[hooks |-> {"pre", "main", "post"}, outs |-> OutSeq,
               writes |-> [h \in HookNames |->
                             IF h = "pre" THEN {StyledCell, CharlessCell}
                             ELSE {}],
               throws |-> FALSE]},
             {[horizon |-> MaxCellTime, maxStep |-> MaxCellTime]},
             {NoItem}, {TRUE})

SpecCells == InitCells /\ [][Next]_vars

\* The pointer runs: a looping run of a program with a main hook, with
\* pointer events and resizes between the frames.
InitInput ==
    InitWith({Settings("PRE", "text", FALSE, fps, FALSE, 0, 0, NoStyle) :
                 fps \in LifecycleFps},
             {PlainProgram({"main"}, FALSE)},
             {[horizon |-> MaxInputTime, maxStep |-> MaxInputTime]},
             {NoItem}, {TRUE})

NextInput == Boot \/ Resize \/ Tick \/ PointerMove \/ PointerDown \/ PointerUp

SpecInput == InitInput /\ [][NextInput]_vars

\* The reload runs: a first run on an empty store, with restoreState on
\* or off and a store that works or not, and the runs that follow it.
InitReload ==
    InitWith({Settings("PRE", "text", FALSE, fps, rs, 0, 0, NoStyle) :
                 fps \in LifecycleFps, rs \in BOOLEAN},
             {PlainProgram({"main"}, FALSE)},
             {[horizon |-> MaxReloadTime, maxStep |-> MaxReloadTime]},
             {NoItem}, BOOLEAN)

NextReload == Boot \/ Tick \/ Reload

SpecReload == InitReload /\ [][NextReload]_vars

\* The sizes of the buffers: one cell, or the whole grid.
BufferDims == {<<1, 1>>, <<MaxCols, MaxRows>>}

\* What the buffer holds at the start: strings, cells and empty slots.
StartCells ==
    {Str("s:a"),
     Obj([NoProps EXCEPT !["char"] = "s:b", !["color"] = "s:red"]),
     Hole}

\* The buffer runs: a program calls get, set and merge on a buffer, with
\* coordinates in and out of bounds; run() is not involved.
InitBuffer ==
    /\ RunWith({Settings("PRE", "text", FALSE, fps, FALSE, 0, 0, NoStyle) :
                    fps \in LifecycleFps},
               {PlainProgram({}, FALSE)},
               {[horizon |-> 0, maxStep |-> 0]},
               {NoItem}, {TRUE})
    /\ \E dims \in BufferDims, v1 \in StartCells, v2 \in StartCells :
          /\ targetCols = dims[1]
          /\ targetRows = dims[2]
          /\ target = [k \in 1..(dims[1] * dims[2]) |->
                          IF k % 2 = 1 THEN v1 ELSE v2]
    /\ op = NoOp
    /\ TextIdle

NextBuffer == Get \/ Set \/ Merge

\* The text runs: a program calls mergeText on a buffer.
NextText == MergeText

SpecText == InitBuffer /\ [][NextText]_vars

SpecBuffer == InitBuffer /\ [][NextBuffer]_vars

\* The render runs: the text renderer is called for two elements, with
\* frames of the same and of different sizes.
InitRender ==
    /\ RunWith({Settings("PRE", "text", FALSE, fps, FALSE, 0, 0, NoStyle) :
                    fps \in LifecycleFps},
               {PlainProgram({}, FALSE)},
               {[horizon |-> 0, maxStep |-> 0]},
               {NoItem}, {TRUE})
    /\ BufferIdle
    /\ TextIdle

NextRender == Render

SpecRender == InitRender /\ [][NextRender]_vars

(***************************************************************************)
(* The claims.                                                             *)
(***************************************************************************)
IsPrefix(a, b) == Len(a) <= Len(b) /\ \A k \in 1..Len(a) : a[k] = b[k]

\* The hook and the coordinate of each call of the last frame.
CallSigs == [k \in 1..Len(tick.calls) |->
                <<tick.calls[k].hook, tick.calls[k].x, tick.calls[k].y,
                  tick.calls[k].index>>]

Once(name) == IF name \in program.hooks THEN <<<<name, -1, -1, -1>>>> ELSE <<>>

\* pre, main for every cell row by row, post, the renderer.
ExpectedCalls ==
    Once("pre")
    \o (IF "main" \in program.hooks
        THEN [k \in 1..(tick.ctx.cols * tick.ctx.rows) |->
                 <<"main", (k - 1) % tick.ctx.cols, (k - 1) \div tick.ctx.cols,
                   k - 1>>]
        ELSE <<>>)
    \o Once("post")
    \o <<<<"render", -1, -1, -1>>>>

\* C1: program.boot is called exactly once, before any call of the loop,
\* when the program defines it; an accepted frame calls pre, then main
\* once per cell in row-major order with {x, y, index = x + y * cols},
\* then post, then the renderer, skipping the hooks the program does not
\* define; a frame that a throw ends has made a proper prefix of these
\* calls.
C1_LifecycleOrder ==
    /\ bootCalls = (IF pc = "booted" /\ "boot" \in program.hooks THEN 1 ELSE 0)
    /\ (tick.t >= 0 \/ accepts > 0) => pc = "booted"
    /\ tick.accepted =>
          /\ \A k \in 1..Len(tick.calls) :
                tick.calls[k].hook = "main" =>
                   tick.calls[k].index
                      = tick.calls[k].x + tick.calls[k].y * tick.ctx.cols
          /\ IF tick.threw = ""
             THEN CallSigs = ExpectedCalls
             ELSE IsPrefix(CallSigs, ExpectedCalls)
                  /\ Len(CallSigs) < Len(ExpectedCalls)

\* A complete frame of a program with all four hooks on a grid of at least
\* two columns and two rows.
C1_Witness ==
    /\ tick.accepted
    /\ tick.threw = ""
    /\ program.hooks = HookNames
    /\ bootCalls = 1
    /\ tick.ctx.cols >= 2
    /\ tick.ctx.rows >= 2
    /\ Len(tick.calls) = tick.ctx.cols * tick.ctx.rows + 3

\* C2 as stated: two consecutive accepted ticks are at least one interval
\* (1000 / fps ms) apart.
C2_AcceptedTicksOneIntervalApart ==
    (tick.accepted /\ tick.prevT >= 0)
       => (tick.t - tick.prevT) * settings.fps >= 1000

\* C2: a tick is accepted only when the time since timeSample (the last
\* accepted tick's timestamp less its remainder modulo the interval) is at
\* least 1000 / fps; consecutive accepted ticks have increasing
\* timestamps.
C2_TimeGate ==
    tick.accepted =>
       /\ tick.tsBefore.h = 0
       /\ tick.tsBefore.l = 0
       /\ (tick.t - tick.tsBefore.i) * settings.fps >= 1000
       /\ tick.prevT >= 0 => tick.t > tick.prevT

\* Two accepted ticks one millisecond apart, less than the interval.
C2_Witness ==
    /\ tick.accepted
    /\ tick.prevT >= 0
    /\ (tick.t - tick.prevT) * settings.fps < 1000
    /\ tick.tsBefore.i < tick.prevT

\* floor(T / interval) for the timestamp T of the last tick.
FloorFrames == (tick.t * settings.fps) \div 1000

\* C3 as stated: after a tick at time T the frame counter is
\* floor(T / interval).
C3_FrameIsFloor == tick.t >= 0 => state.frame = FloorFrames

\* C3: after a tick at time T the frame counter is floor(T / interval) or
\* one less; it is one less only when T is a multiple of an interval that
\* is no whole number of milliseconds.
C3_Cadence ==
    tick.t >= 0 =>
       /\ state.frame \in {FloorFrames - 1, FloorFrames}
       /\ state.frame = FloorFrames - 1 =>
             /\ (tick.t * settings.fps) % 1000 = 0
             /\ 1000 % settings.fps # 0

\* Three frames at fps = 30 after the tick at 100 ms was passed.
C3_Witness ==
    /\ settings.fps = 30
    /\ tick.accepted
    /\ tick.t > 100
    /\ state.frame = 3
    /\ state.frame = FloorFrames

\* The char the loop leaves for a char value m.
FixedChar(m) == IF m \in {Undef, Null, "s:"} THEN "s: " ELSE m

OtherFields == CellFields \ {"char"}

\* C4 as stated: a bare glyph replaces only char; a partial cell's fields
\* are merged and every field it does not mention, char included, keeps
\* its value; null and undefined give the char ' '; 0 gives the char 0.
C4_MainContractAsStated ==
    \A k \in 1..Len(tick.cells) :
       LET e == tick.cells[k]
       IN  /\ (e.out.type = "string" /\ e.out.v # "s:") =>
                 e.after = [e.before EXCEPT !["char"] = e.out.v]
           /\ (e.out.type = "object" /\ e.out.v # Null) =>
                 \A f \in CellFields :
                    e.after[f] = IF e.out.obj[f] # Absent THEN e.out.obj[f]
                                 ELSE e.before[f]
           /\ e.out.v \in {Null, Undef} => e.after["char"] = "s: "
           /\ e.out.v = "n:0" => e.after["char"] = "n:0"

\* C4: a bare glyph replaces only char; a partial cell's fields are merged
\* and every field it does not mention keeps its value, except that a char
\* left undefined, null or '' by the merge becomes ' '; null, undefined
\* and '' give the char ' ' and keep the other fields; 0 gives the char 0.
C4_MainContract ==
    \A k \in 1..Len(tick.cells) :
       LET e == tick.cells[k]
       IN  /\ (e.out.type = "string" /\ e.out.v # "s:") =>
                 e.after = [e.before EXCEPT !["char"] = e.out.v]
           /\ (e.out.type = "object" /\ e.out.v # Null) =>
                 /\ \A f \in OtherFields :
                       e.after[f] = IF e.out.obj[f] # Absent
                                    THEN e.out.obj[f] ELSE e.before[f]
                 /\ e.after["char"]
                       = FixedChar(IF e.out.obj["char"] # Absent
                                   THEN e.out.obj["char"]
                                   ELSE e.before["char"])
           /\ e.out.v \in {Null, Undef, "s:"} =>
                 /\ e.after["char"] = "s: "
                 /\ \A f \in OtherFields : e.after[f] = e.before[f]
           /\ e.out.v = "n:0" =>
                 /\ e.after["char"] = "n:0"
                 /\ \A f \in OtherFields : e.after[f] = e.before[f]

\* main returned { color } for a cell that pre had left without a char,
\* and in the same frame a bare glyph, null and 0 for other cells.
C4_Witness ==
    /\ \E k \in 1..Len(tick.cells) :
          /\ tick.cells[k].out.type = "object"
          /\ tick.cells[k].out.v # Null
          /\ tick.cells[k].out.obj["char"] = Absent
          /\ tick.cells[k].before["char"] = Undef
          /\ tick.cells[k].after["char"] = "s: "
          /\ tick.cells[k].after["color"] = "s:green"
    /\ \E k \in 1..Len(tick.cells) : tick.cells[k].out.v = Null
    /\ \E k \in 1..Len(tick.cells) :
          /\ tick.cells[k].out.v = "n:0"
          /\ tick.cells[k].after["char"] = "n:0"

AllCallsSized ==
    \A k \in 1..Len(tick.calls) :
       tick.calls[k].len = tick.calls[k].cols * tick.calls[k].rows

\* C5 as stated: boot, pre, main, post and the renderer are handed a
\* buffer of length cols * rows.
C5_LengthAtEveryHook ==
    /\ AllCallsSized
    /\ bootCalls > 0 => bootLen[1] = bootLen[2]

\* C5: pre, main, post and the renderer are handed a buffer of length
\* cols * rows of their context; boot is handed the buffer before its
\* first normalisation, of length 0.
C5_BufferLength ==
    /\ AllCallsSized
    /\ bootCalls > 0 => bootLen[1] = 0

\* A frame after a resize, with pre, main, post and the renderer called,
\* in a run whose boot hook was called.
C5_Witness ==
    /\ tick.accepted
    /\ tick.threw = ""
    /\ bootCalls = 1
    /\ bootLen[2] > 0
    /\ tick.prevDims # <<-1, -1>>
    /\ tick.dims # tick.prevDims
    /\ {tick.calls[k].hook : k \in 1..Len(tick.calls)}
          = {"pre", "main", "post", "render"}

\* The default cell of the settings.
DefaultCell ==
    [char |-> "s: ", color |-> settings.color,
     backgroundColor |-> settings.backgroundColor,
     fontWeight |-> settings.fontWeight]

\* C6: in the first accepted frame and in an accepted frame whose cols or
\* rows differ from the previous accepted frame's, the buffer pre sees has
\* length cols * rows and every cell is the default cell of the settings.
C6_ResizeResets ==
    (tick.accepted /\ tick.dims # tick.prevDims) =>
       /\ Len(tick.preBuf) = tick.ctx.cols * tick.ctx.rows
       /\ \A k \in 1..Len(tick.preBuf) : tick.preBuf[k] = DefaultCell

\* A frame after a resize to a larger grid whose old buffer held a cell
\* that was not the default cell, with a default style set.
C6_Witness ==
    /\ tick.accepted
    /\ tick.prevDims # <<-1, -1>>
    /\ tick.dims # tick.prevDims
    /\ settings.color = "s:white"
    /\ Len(tick.preBuf) > Len(tick.oldBuf)
    /\ \E k \in 1..Len(tick.oldBuf) : tick.oldBuf[k] # DefaultCell

\* The time offset restored when run() was called.
RestoredTime ==
    IF settings.restoreState /\ storageOk /\ startItem.present
    THEN startItem.time ELSE 0

\* C7: an accepted tick adds 1 to frame and sets time to its timestamp
\* plus the restored offset; any other step changes neither; frame and
\* time never decrease.
C7_FrameState ==
    [][ /\ accepts' = accepts + 1 =>
              /\ state'.frame = state.frame + 1
              /\ state'.time = now' + RestoredTime
        /\ accepts' = accepts => state' = state
        /\ accepts' \in {accepts, accepts + 1}
        /\ state'.frame >= state.frame
        /\ state'.time >= state.time ]_vars

\* The second accepted tick of a run that restored the stored time.
C7_Witness ==
    /\ tick.accepted
    /\ accepts = 2
    /\ RestoredTime = 5
    /\ state.frame = startItem.frame + 2
    /\ state.time = tick.t + 5

\* C8: in once mode, when the loop has been called, exactly one frame was
\* accepted and the loop is not scheduled again.
C8_RunOnce ==
    (settings.once /\ tick.t >= 0) => (accepts = 1 /\ ~scheduled)

\* C9: when pre, main or post threw in the first accepted frame, the
\* promise of run() is rejected.
C9_FirstFrameRejects ==
    (accepts = 1 /\ tick.accepted /\ tick.threw \in {"pre", "main", "post"})
       => promise = "rejected"

\* C10: a frame in which pre, main, post or the renderer call threw leaves
\* the loop unscheduled, and from then on no tick is accepted and the
\* frame counter stays.
C10_ThrowHalts ==
    [][ /\ tick'.threw # "" => ~scheduled'
        /\ tick.threw # "" =>
              /\ accepts' = accepts
              /\ state'.frame = state.frame
              /\ tick'.threw # "" ]_vars

\* post threw in the second frame of a looping run, with time left on the
\* clock.
C10_Witness ==
    /\ tick.accepted
    /\ tick.threw = "post"
    /\ ~settings.once
    /\ accepts = 2
    /\ ~scheduled
    /\ now < MaxTime

\* C11: a run whose element does not match rendererType goes on: an
\* accepted frame in which no hook threw ends without an exception and
\* the loop is rescheduled unless in once mode.
C11_MismatchNonFatal ==
    (renderer = "undefined" /\ tick.accepted
        /\ tick.threw \notin {"pre", "main", "post"})
       => (tick.threw = "" /\ (settings.once \/ scheduled))

\* C12: the promise of run() goes from pending to resolved only in the
\* first accepted frame, after boot, when pre, main, post and the renderer
\* have returned without a throw; a resolved promise stays resolved, and
\* the promise is pending before boot.
C12_Readiness ==
    [][ /\ (promise = "pending" /\ promise' = "resolved") =>
              /\ pc = "booted"
              /\ accepts = 0
              /\ accepts' = 1
              /\ tick'.accepted
              /\ tick'.threw = ""
              /\ Len(tick'.calls) > 0
              /\ tick'.calls[Len(tick'.calls)].hook = "render"
        /\ promise = "resolved" => promise' = "resolved"
        /\ pc' = "started" => promise' = "pending"
        /\ (tick'.accepted /\ accepts' = 1 /\ tick'.threw # "") =>
              promise' = "pending" ]_vars

\* The promise was resolved by the first frame and a second frame of all
\* four hooks has resolved it again.
C12_Witness ==
    /\ promise = "resolved"
    /\ accepts = 2
    /\ tick.accepted
    /\ tick.threw = ""
    /\ program.hooks = HookNames
    /\ Len(tick.calls) = tick.ctx.cols * tick.ctx.rows + 3

\* q <= k and a = b for fractions <<numerator, denominator>>.
FracAtMost(q, k) == q[1] <= k * q[2]

FracEq(a, b) == a[1] * b[2] = b[1] * a[2]

\* C13: in an accepted frame the cursor handed to the hooks has
\* x <= cols - 1 and y <= rows - 1.
C13_CursorClamp ==
    tick.accepted =>
       /\ FracAtMost(tick.cursor.x, tick.ctx.cols - 1)
       /\ FracAtMost(tick.cursor.y, tick.ctx.rows - 1)

\* A frame with the pointer on the last pixel of the element, right of and
\* below the last cell's corner: the cursor is the last column and row.
C13_Witness ==
    /\ tick.accepted
    /\ tick.ctx.cols >= 2
    /\ pointer.px > (tick.ctx.cols - 1) * CellWidth
    /\ pointer.py > (tick.ctx.rows - 1) * LineHeight
    /\ tick.cursor.x = Frac(tick.ctx.cols - 1, 1)
    /\ tick.cursor.y = Frac(tick.ctx.rows - 1, 1)

\* C14: in an accepted frame after the first, cursor.p is the x, y and
\* pressed of the cursor of the preceding accepted frame.
C14_CursorSnapshot ==
    (tick.accepted /\ accepts >= 2) =>
       /\ FracEq(tick.cursor.p.x, tick.prevCursor.x)
       /\ FracEq(tick.cursor.p.y, tick.prevCursor.y)
       /\ tick.cursor.p.pressed = tick.prevCursor.pressed

ZeroState == [time |-> 0, frame |-> 0, cycle |-> 0]

ThisRun == starts[Len(starts)]

Readable == storageOk /\ startItem.present

\* cycle does not change during a run, and the context carries it.
CycleFixedInRun ==
    /\ state.cycle = ThisRun.cycle
    /\ tick.accepted => tick.ctx.cycle = state.cycle

ContinuesFrom(item) ==
    /\ timeOffset = item.time
    /\ state.frame = item.frame + accepts
    /\ state.time = (IF accepts > 0 THEN lastT ELSE 0) + item.time

\* At a reload the frame and the time of the new run are not below those
\* of the run before.
ReloadKeeps == state'.frame >= state.frame /\ state'.time >= state.time

\* C17 as stated: with restoreState on, a run that finds an item continues
\* from it (frame = stored frame + 1 after its first accepted frame, time =
\* timestamp + stored time, cycle = stored cycle + 1) and its frame and
\* time are not below those of the run before; a run that finds no item,
\* or whose store fails on read or on write, starts from time 0 and
\* frame 0.
C17_RestoreAsStated ==
    /\ [](settings.restoreState =>
            IF Readable /\ storeOk
            THEN ContinuesFrom(startItem)
                 /\ state.cycle = startItem.cycle + 1
            ELSE ContinuesFrom(NoItem))
    /\ [][(Len(starts') > Len(starts) /\ settings'.restoreState
             /\ storageOk' /\ storeOk' /\ storage.present) => ReloadKeeps]_vars

\* C17: with restoreState on, a run that can read an item continues from it
\* (frame = stored frame + 1 after its first accepted frame, time =
\* timestamp + stored time, cycle = stored cycle + 1); a run that finds no
\* item or whose read fails starts from time 0 and frame 0; a run whose
\* writes fail leaves the item as it found it.  Frame and time do not
\* decrease at a reload when the writes of the run before worked and the
\* new run can read.
C17_Restore ==
    /\ [](/\ settings.restoreState =>
               IF Readable
               THEN ContinuesFrom(startItem)
                    /\ state.cycle = startItem.cycle + 1
               ELSE ContinuesFrom(NoItem)
          /\ ~storeOk => storage = startItem)
    /\ [][(Len(starts') > Len(starts) /\ settings'.restoreState
             /\ storageOk' /\ storeOk) => ReloadKeeps]_vars

\* The first frame of a run that restored the item of a run that had
\* itself restored one: frame and time go on from the stored ones.
C17_Witness ==
    /\ Len(starts) = 3
    /\ settings.restoreState
    /\ Readable
    /\ startItem.frame >= 2
    /\ startItem.time >= 4
    /\ accepts = 1
    /\ tick.accepted
    /\ state.frame = startItem.frame + 1
    /\ state.time = tick.t + startItem.time
    /\ state.cycle = 3

\* The last call of the buffer module had coordinates in bounds, and the
\* index they address.
OpInBounds ==
    /\ op.x >= 0 /\ op.x < targetCols
    /\ op.y >= 0 /\ op.y < targetRows

OpIndex == op.x + op.y * targetCols

\* The call changed no cell but the one it addressed, and no length.
OthersKept ==
    /\ Len(target) = Len(op.before)
    /\ \A k \in 1..Len(target) : k # OpIndex + 1 => target[k] = op.before[k]

\* C18: after set(v, x, y) in bounds, get(x, y) is v and no other cell has
\* changed; a get in bounds returns the cell; out of bounds set leaves the
\* buffer as it was and get returns {}.
C18_GetSetRoundTrip ==
    /\ op.name = "set" =>
          IF OpInBounds
          THEN /\ get(op.x, op.y, target, targetCols, targetRows) = op.val
               /\ OthersKept
          ELSE target = op.before
    /\ op.name = "get" =>
          /\ target = op.before
          /\ op.result = (IF OpInBounds THEN op.before[OpIndex + 1]
                          ELSE Obj(NoProps))

\* A get that returned the glyph a set had stored in the last cell of a
\* grid.
C18_Witness ==
    /\ op.name = "get"
    /\ op.n = 2
    /\ OpInBounds
    /\ targetCols >= 2
    /\ op.x = targetCols - 1
    /\ op.y = targetRows - 1
    /\ op.result = Str("s:X")

\* C19: after merge(v, x, y) in bounds with a partial cell v, the cell is
\* an object with v's properties and the other properties of the cell it
\* was (a string cell counting as { char }), no other cell has changed,
\* and merging v again changes nothing; out of bounds the buffer is
\* unchanged.
C19_MergeIdempotent ==
    (op.name = "merge" /\ op.val.kind = "object") =>
       IF OpInBounds
       THEN /\ At(target, OpIndex)
                 = Obj([f \in BufFields |->
                          IF op.val.obj[f] # Absent THEN op.val.obj[f]
                          ELSE Flatten(At(op.before, OpIndex))[f]])
            /\ OthersKept
            /\ merge(op.val, op.x, op.y, target, targetCols, targetRows)
                  = target
       ELSE target = op.before

\* { backgroundColor } merged onto a cell that had a char and a color.
C19_Witness ==
    /\ op.name = "merge"
    /\ OpInBounds
    /\ op.val = Obj([NoProps EXCEPT !["backgroundColor"] = "s:gray"])
    /\ At(op.before, OpIndex).kind = "object"
    /\ At(target, OpIndex).obj["char"] = "s:b"
    /\ At(target, OpIndex).obj["color"] = "s:red"
    /\ At(target, OpIndex).obj["backgroundColor"] = "s:gray"

\* C20: merge(g, x, y) in bounds with a glyph string g leaves the buffer
\* that merge({ char: g }, x, y) leaves.
C20_MergeGlyph ==
    (op.name = "merge" /\ op.val.kind = "string" /\ OpInBounds) =>
       target = merge(Obj([NoProps EXCEPT !["char"] = op.val.s]),
                      op.x, op.y, op.before, targetCols, targetRows)

\* The coordinates mergeText has characters for: character i of line j at
\* (x + i - 1, y + j - 1).
TextAt(cx, cy) ==
    LET j == cy - op.y + 1
        i == cx - op.x + 1
    IN  IF j >= 1 /\ j <= Len(op.text) /\ i >= 1 /\ i <= Len(op.text[j])
        THEN op.text[j][i] ELSE ""

\* Every cell of the buffer under a character is that character with the
\* properties of the text object over those of the cell it was; every
\* other cell is as it was.
TextPlaced ==
    /\ Len(target) = Len(op.before)
    /\ \A cx \in 0..(targetCols - 1), cy \in 0..(targetRows - 1) :
          LET k == cx + cy * targetCols
          IN  IF TextAt(cx, cy) = "" THEN At(target, k) = At(op.before, k)
              ELSE At(target, k)
                     = Obj([f \in BufFields |->
                              IF f = "char" THEN TextAt(cx, cy)
                              ELSE IF op.val.obj[f] # Absent
                                   THEN op.val.obj[f]
                                   ELSE Flatten(At(op.before, k))[f]])

LastLine == op.text[Len(op.text)]

\* C21: after mergeText of lines L0..Lk at (x, y), every cell in bounds
\* under a character has that character and the style of the text, the
\* other cells are unchanged, and the offset returned is
\* {col: x + len(Lk) - 1, row: y + k}.
C21_MergeTextPlacement ==
    op.name = "mergeText" =>
       /\ TextPlaced
       /\ op.offset = [col |-> op.x + Len(LastLine) - 1,
                       row |-> op.y + Len(op.text) - 1]

\* C22 as stated: the offset returned is the coordinate after the last
\* inserted character, and each wrapInfo entry holds the cells of the
\* first and the last character of its line.
C22_ReturnAsStated ==
    (op.name = "mergeText" /\ Len(LastLine) > 0) =>
       /\ op.offset = [col |-> op.x + Len(LastLine),
                       row |-> op.y + Len(op.text) - 1]
       /\ Len(op.wrapInfo) = Len(op.text)

\* C22: the offset returned has the row of the last line, and when that
\* line is not empty the column of its last character (not the one after
\* it); wrapInfo has one entry per line, with get(x, row) and
\* get(x + len - 1, row) read from the buffer after the merge: the cells of
\* the line's first and last character when those are in bounds, {} when
\* they are not.
C22_MergeTextReturn ==
    op.name = "mergeText" =>
       /\ op.offset.row = op.y + Len(op.text) - 1
       /\ Len(LastLine) > 0 => op.offset.col = op.x + Len(LastLine) - 1
       /\ Len(op.wrapInfo) = Len(op.text)
       /\ \A j \in 1..Len(op.text) :
             /\ op.wrapInfo[j].first
                   = get(op.x, op.y + j - 1, target, targetCols, targetRows)
             /\ op.wrapInfo[j].last
                   = get(op.x + Len(op.text[j]) - 1, op.y + j - 1, target,
                         targetCols, targetRows)

\* 'AB\nCD' merged at (0, 0) into a grid of two columns or more: offset
\* {col: 1, row: 1}, and the second line's entry holds the cells C and D.
C22_Witness ==
    /\ op.name = "mergeText"
    /\ op.text = <<<<"s:A", "s:B">>, <<"s:C", "s:D">>>>
    /\ op.x = 0
    /\ op.y = 0
    /\ targetCols >= 2
    /\ targetRows >= 2
    /\ op.offset = [col |-> 1, row |-> 1]
    /\ op.wrapInfo[2].first.obj["char"] = "s:C"
    /\ op.wrapInfo[2].last.obj["char"] = "s:D"
\* The cells of row j of the last render that differ from the cells of the
\* render before it in glyph, color, background or weight.
ChangedInRow(j) ==
    {i \in 0..(rendered.cols - 1) :
        ~isSameCell(rendered.buffer[i + j * rendered.cols + 1], TRUE,
                    rendered.prev.buffer[i + j * rendered.cols + 1])}

SameTargetAndSize ==
    /\ rendered.n >= 2
    /\ rendered.prev.element = rendered.element
    /\ rendered.prev.cols = rendered.cols
    /\ rendered.prev.rows = rendered.rows

\* C23: of two consecutive renders of buffers of the same size to the same
\* element, the second writes the content of exactly the rows that have a
\* cell differing from the previous frame in glyph, color, background or
\* weight, and of no other row.
C23_Diffing ==
    SameTargetAndSize =>
        \A j \in 0..(rendered.rows - 1) :
            (j \in rendered.writes) <=> (ChangedInRow(j) # {})

\* Two frames of more than one row that differ in one row: one write.
C23_Witness ==
    /\ SameTargetAndSize
    /\ rendered.rows >= 2
    /\ Cardinality({j \in 0..(rendered.rows - 1) : ChangedInRow(j) # {}}) = 1
    /\ Cardinality(rendered.writes) = 1

SizeChanged ==
    /\ rendered.n >= 2
    /\ rendered.prev.cols # rendered.cols \/ rendered.prev.rows # rendered.rows

\* C24: a render whose cols or rows differ from the previous render's
\* starts from an empty shadow buffer and writes every row, and after
\* every render the target has exactly rows line elements.
C24_Resize ==
    /\ SizeChanged =>
          /\ rendered.shadow = <<>>
          /\ rendered.writes = 0..(rendered.rows - 1)
    /\ rendered.n >= 1 => Len(dom[rendered.element]) = rendered.rows

ShadowDiffers(k) ==
    ~isSameCell(rendered.buffer[k], k <= Len(rendered.shadow),
                IF k <= Len(rendered.shadow) THEN rendered.shadow[k]
                ELSE EmptyCell)

\* C25: a render overwrites the shadow entries whose cell differs from the
\* buffer cell with a copy of that cell and leaves the others as they
\* were, so every entry below cols*rows equals the buffer cell in glyph,
\* color, background and weight.
C25_ShadowCommit ==
    rendered.n >= 1 =>
        /\ Len(backBuffer) >= rendered.cols * rendered.rows
        /\ \A k \in 1..(rendered.cols * rendered.rows) :
              /\ backBuffer[k] = IF ShadowDiffers(k) THEN rendered.buffer[k]
                                 ELSE rendered.shadow[k]
              /\ isSameCell(rendered.buffer[k], TRUE, backBuffer[k])

\* A row with a cell that was overwritten and a matching cell that was
\* left as it was: it still carries the raw markup of an earlier frame.
C25_Witness ==
    /\ rendered.n >= 2
    /\ \E k, l \in 1..(rendered.cols * rendered.rows) :
          /\ (k - 1) \div rendered.cols = (l - 1) \div rendered.cols
          /\ ShadowDiffers(k)
          /\ backBuffer[k] = rendered.buffer[k]
          /\ ~ShadowDiffers(l)
          /\ backBuffer[l] # rendered.buffer[l]
          /\ backBuffer[l] = rendered.shadow[l]

OneTarget == rendered.n >= 1 /\ Cardinality(rendered.elements) = 1

\* C26: while one element is the only target, after every render each of
\* its line elements holds the markup of the current buffer row, with the
\* raw markup of its cells and the style attributes of the current
\* defaults.
C26_InSync ==
    OneTarget =>
        \A j \in 1..rendered.rows :
            dom[rendered.element][j] =
                RowMarkup(rendered.buffer, j - 1, rendered.cols,
                          rendered.defaults)

\* The glyphs of a line element.
Glyphs(html) == SelectSeq(html, LAMBDA piece : piece[1] = "char")

\* C27: with two target elements, after each render the line elements of
\* the rendered element show the glyphs of the buffer that was rendered.
C27_IndependentGrids ==
    (rendered.n >= 1 /\ Cardinality(rendered.elements) = 2) =>
        \A j \in 1..rendered.rows :
            Glyphs(dom[rendered.element][j]) =
                Glyphs(RowMarkup(rendered.buffer, j - 1, rendered.cols,
                                 rendered.defaults))

\* The part of the pointer object that the frames write.
PrevSnapshot(p) == <<p.px, p.py, p.ppressed>>

F64Zero == F64FromInt(0)

\* The binary64 value v is a multiple of interval.
IsMultiple(v) == F64Fmod(v, interval) = F64Zero

\* v is less than 2^-26 away from a multiple of interval.
NearMultiple(v) ==
    LET r == F64Fmod(v, interval)
        d == F64SubExact(interval, r)
    IN  (r.i = 0 /\ r.h = 0) \/ (d.i = 0 /\ d.h = 0)

\* 0 <= t - timeSample < interval after the accepted tick at t, a
\* timeSample that did not decrease, and no more accepted frames than
\* floor(T / interval).
RemainderBounds ==
    /\ tick.accepted =>
          /\ ~F64Less(F64FromInt(tick.t), timeSample)
          /\ F64Less(F64SubExact(F64FromInt(tick.t), timeSample), interval)
          /\ ~F64Less(timeSample, tick.tsBefore)
    /\ tick.t >= 0 => accepts <= FloorFrames

FreshRun == timeOffset = 0 /\ state.frame = accepts

\* C30: the context of an accepted frame is the frame state before the
\* frame advances it: its frame is one less than the frame counter and
\* than the frame of the record stored in that frame, and its time is the
\* time the previous accepted frame set (the start time in the first); in
\* the n-th frame of a fresh run that is frame n - 1 and, after the first,
\* the previous accepted timestamp.  The promise is resolved with the
\* context of the first frame.
C30_ContextSnapshot ==
    /\ tick.accepted =>
          /\ tick.ctx.frame = state.frame - 1
          /\ tick.ctx.time = IF accepts = 1 THEN timeOffset
                             ELSE tick.prevT + timeOffset
          /\ FreshRun =>
                /\ tick.ctx.frame = accepts - 1
                /\ tick.ctx.time = IF accepts = 1 THEN 0 ELSE tick.prevT
          /\ storeOk =>
                /\ storage.present
                /\ storage.frame = tick.ctx.frame + 1
                /\ storage.time = tick.t + timeOffset
    /\ promise = "resolved" =>
          /\ ready.frame = state.frame - accepts
          /\ ready.time = timeOffset
          /\ (accepts = 1 /\ tick.accepted) => ready = tick.ctx
    /\ promise # "resolved" => ready = NoCtx

\* The second frame of a fresh run: the context says frame 1 and the time
\* of the first frame, the stored record says frame 2, and the promise
\* holds the context of the first frame.
C30_Witness ==
    /\ FreshRun
    /\ tick.accepted
    /\ accepts = 2
    /\ tick.ctx.frame = 1
    /\ tick.ctx.time = tick.prevT
    /\ tick.prevT > 0
    /\ storeOk
    /\ storage.frame = 2
    /\ promise = "resolved"
    /\ ready.frame = 0
    /\ ready.time = 0

====
